---- MODULE Spec2Model ----
(***************************************************************************)
(* Model of the sequential build plugin: the BuildStateManager singleton   *)
(* (registered builds, completed builds, completion callbacks) and the     *)
(* onStart / onEnd hooks that createSequentialBuildPlugin installs.        *)
(*                                                                         *)
(* Strings that the code inspects character by character (package          *)
(* identifiers, formats, build identifiers, the package regular            *)
(* expression) are sequences of one-character strings.  Every handler runs *)
(* to completion on the single JavaScript thread, so each is one action.   *)
(***************************************************************************)
EXTENDS Naturals, Sequences, FiniteSets

VARIABLES
  registeredBuilds,          \* BuildStateManager.registeredBuilds (Set<string>)
  completedBuilds,           \* BuildStateManager.completedBuilds (Set<string>)
  buildCompletionCallbacks,  \* BuildStateManager.buildCompletionCallbacks, in insertion order
  gates,                     \* one record per onStart invocation: its closure and its promise
  result,                    \* how the most recent call ended: its return value, or "throw"
  ended,                     \* host driver: the onStart invocations whose build has ended
  probe,                     \* the most recent packageRegex.test call: its inputs and its result
  calls,                     \* the callback invocations the most recent manager call made, in order
  handles,                   \* the unregister functions onBuildCompleted has returned: the
                             \* listener each removes, and whether it has been called
  delivered,                 \* the watched calls made so far: the listener and the identifier
  snapshot                   \* the array an accessor returned last, as the caller holds it

manager == <<registeredBuilds, completedBuilds, buildCompletionCallbacks>>
vars == <<registeredBuilds, completedBuilds, buildCompletionCallbacks, gates, result, ended, probe,
          calls, handles, delivered, snapshot>>

----------------------------------------------------------------------------
(* Bounds of the exploration *)

MaxStarts == 2      \* onStart invocations explored when hooks and manager calls interleave freely
MaxSessions == 2    \* builds of one unit explored under the host driver's discipline
MaxNameLen == 2     \* length of the package identifiers the regular expression is probed with

----------------------------------------------------------------------------
(* Inputs: package identifiers and formats the host driver supplies *)

esm == <<"e", "s", "m">>
unknown == <<"u", "n", "k", "n", "o", "w", "n">>
Undefined == <<"undefined">>      \* build.initialOptions.format is absent

\* The tsup configuration explored, in configuration order: one entry per
\* package, with the formats it is built in.  "p+" and "p." hold a character
\* that is an operator of the regular-expression syntax.
Configuration ==
  << [packageIdentifier |-> <<"p">>,      formats |-> {Undefined, <<>>, esm}],
     [packageIdentifier |-> <<"p", "+">>, formats |-> {esm}],
     [packageIdentifier |-> <<"p", ".">>, formats |-> {esm}] >>

PackageIdentifiers == {Configuration[i].packageIdentifier : i \in 1..Len(Configuration)}

\* The build units of the configuration: a package and one of its formats
Units ==
  UNION {{<<Configuration[i].packageIdentifier, f>> : f \in Configuration[i].formats} :
           i \in 1..Len(Configuration)}

\* The place of a package in the configuration
ConfigIndex(packageIdentifier) ==
  CHOOSE i \in 1..Len(Configuration) : Configuration[i].packageIdentifier = packageIdentifier

\* A default applied to an absent format only (?? in place of ||)
BuildFormatNullish(format) ==
  IF format = Undefined THEN unknown ELSE format

\* build.initialOptions.format || 'unknown'
BuildFormat(format) ==
  IF format = Undefined \/ format = <<>> THEN unknown ELSE format

\* `${packageIdentifier}-${buildFormat}`
BuildIdentifier(packageIdentifier, buildFormat) ==
  packageIdentifier \o <<"-">> \o buildFormat

UnitIdentifier(u) == BuildIdentifier(u[1], BuildFormat(u[2]))

Identifiers == {UnitIdentifier(u) : u \in Units}

----------------------------------------------------------------------------
(* new RegExp(`^${packageIdentifier}-[^-]+$`) and RegExp.prototype.test *)

\* One atom of the parsed pattern: what one character it accepts, and whether
\* a + quantifier follows it.
Atom(kind, ch, plus) == [kind |-> kind, ch |-> ch, plus |-> plus]

\* The pattern text is read left to right: "." is any character, "+" makes the
\* atom before it one-or-more, every other character of the model's alphabet
\* is a literal.
RECURSIVE ParsePattern(_, _)
ParsePattern(text, atoms) ==
  IF text = <<>> THEN atoms
  ELSE LET c == Head(text) IN
    IF c = "+" /\ atoms # <<>>
      THEN ParsePattern(Tail(text),
             [atoms EXCEPT ![Len(atoms)] = Atom(@.kind, @.ch, TRUE)])
    ELSE IF c = "."
      THEN ParsePattern(Tail(text), Append(atoms, Atom("any", c, FALSE)))
    ELSE ParsePattern(Tail(text), Append(atoms, Atom("lit", c, FALSE)))

\* ^<packageIdentifier>-[^-]+$
PackageRegex(packageIdentifier) ==
  ParsePattern(packageIdentifier, <<>>)
    \o <<Atom("lit", "-", FALSE), Atom("notHyphen", "-", TRUE)>>

AtomAccepts(atom, c) ==
  CASE atom.kind = "lit" -> c = atom.ch
    [] atom.kind = "any" -> TRUE
    [] atom.kind = "notHyphen" -> c # "-"

\* The anchored match of atoms[i..] against s[j..].
RECURSIVE MatchFrom(_, _, _, _)
MatchFrom(atoms, i, s, j) ==
  IF i > Len(atoms) THEN j > Len(s)
  ELSE IF j > Len(s) THEN FALSE
  ELSE /\ AtomAccepts(atoms[i], s[j])
       /\ \/ MatchFrom(atoms, i + 1, s, j + 1)
          \/ atoms[i].plus /\ MatchFrom(atoms, i, s, j + 1)

\* packageRegex.test(identifier)
RegexTest(packageIdentifier, identifier) ==
  MatchFrom(PackageRegex(packageIdentifier), 1, identifier, 1)

----------------------------------------------------------------------------
(* BuildStateManager *)

\* isBuildRegistered
IsBuildRegistered(registered, identifier) == identifier \in registered

\* isBuildCompleted
IsBuildCompleted(completed, identifier) == identifier \in completed

\* getPendingBuilds: the registered builds that are not completed
GetPendingBuilds(registered, completed) ==
  {identifier \in registered : ~IsBuildCompleted(completed, identifier)}

\* A pending test that leaves out the registration
IsBuildPendingNotCompleted(registered, completed, identifier) ==
  ~IsBuildCompleted(completed, identifier)

\* isBuildPending
IsBuildPending(registered, completed, identifier) ==
  IsBuildRegistered(registered, identifier) /\ ~IsBuildCompleted(completed, identifier)

\* hasRegisteredBuilds
HasRegisteredBuilds(registered) == Cardinality(registered) > 0

\* hasCompletedBuilds
HasCompletedBuilds(completed) == Cardinality(completed) > 0

\* A hasPendingBuilds that looks at the registered builds only
HasPendingBuildsAnyRegistered(registered, completed) == Cardinality(registered) > 0

\* hasPendingBuilds: compares the sizes of the two sets
HasPendingBuilds(registered, completed) == Cardinality(registered) > Cardinality(completed)

\* A size comparison that also accepts an unchanged size
RegisterResultNotSmaller(registered, identifier) ==
  Cardinality(registered \cup {identifier}) >= Cardinality(registered)

\* Array.from(set): a new array of the elements
RECURSIVE ArrayFrom(_)
ArrayFrom(set) ==
  IF set = {} THEN <<>>
  ELSE LET first == CHOOSE x \in set : TRUE
       IN <<first>> \o ArrayFrom(set \ {first})

\* The caller holds no array
NoArray == [source |-> "none", items |-> <<>>, alias |-> FALSE, mutations |-> 0]

\* An array that shares the collection it was made from
ReturnedInternal(source, registered, completed) ==
  [source |-> source,
   items |-> ArrayFrom(IF source = "registered" THEN registered
                       ELSE IF source = "completed" THEN completed
                       ELSE {identifier \in registered : identifier \notin completed}),
   alias |-> TRUE,
   mutations |-> 0]

\* getRegisteredBuilds, getCompletedBuilds, getPendingBuilds: Array.from and
\* filter each make an array of their own, which shares nothing
Returned(source, registered, completed) ==
  [source |-> source,
   items |-> IF source = "registered" THEN ArrayFrom(registered)
             ELSE IF source = "completed" THEN ArrayFrom(completed)
             ELSE ArrayFrom(GetPendingBuilds(registered, completed)),
   alias |-> FALSE,
   mutations |-> 0]

\* registerBuild: Set.add, and whether the size grew
RegisterAdd(registered, identifier) == registered \cup {identifier}

RegisterResult(registered, identifier) ==
  Cardinality(RegisterAdd(registered, identifier)) > Cardinality(registered)

InSeq(s, x) == \E i \in 1..Len(s) : s[i] = x

\* A collection that keeps a callback once for every time it was added
OnBuildCompletedAppends(callbacks, callback) == Append(callbacks, callback)

\* onBuildCompleted(callback): Set.add of the callback
OnBuildCompleted(callbacks, callback) ==
  IF InSeq(callbacks, callback) THEN callbacks ELSE Append(callbacks, callback)

\* An unregister function that empties the collection
UnregisterDropsAll(callbacks, callback) == <<>>

\* The function onBuildCompleted returns: Set.delete of the callback
Unregister(callbacks, callback) ==
  SelectSeq(callbacks, LAMBDA c : c # callback)

----------------------------------------------------------------------------
(* The closure of one onStart invocation *)

\* pendingBuilds: the pending builds the package regex does not match
PendingBuilds(packageIdentifier, registered, completed) ==
  {identifier \in GetPendingBuilds(registered, completed) :
     ~RegexTest(packageIdentifier, identifier)}

\* areDependentBuildsCompleted
AreDependentBuildsCompleted(pendingBuilds, completed) ==
  \A identifier \in pendingBuilds : IsBuildCompleted(completed, identifier)

\* The callback that onStart invocation n registers
GateCallback(n) == [kind |-> "gate", n |-> n]

\* A listener that leaves out the check that all its builds are completed
ListenerWakesOnFirstDependency(gate, identifier, completed) ==
  identifier \in gate.pendingBuilds

\* A listener that looks at the builds pending now, not at those it captured
ListenerWakesOnLivePending(gate, identifier, completed) ==
  AreDependentBuildsCompleted(
    PendingBuilds(gate.packageIdentifier, registeredBuilds, completed), completed)

\* A listener that reacts to the completions of the builds it did not capture
ListenerWakesOnOtherBuilds(gate, identifier, completed) ==
  /\ identifier \notin gate.pendingBuilds
  /\ AreDependentBuildsCompleted(gate.pendingBuilds, completed)

\* The callback of a gate runs for a completed identifier: it returns early
\* unless the identifier is one it waits for and all of them are completed;
\* otherwise it unregisters itself and resolves the promise.
ListenerWakes(gate, identifier, completed) ==
  /\ identifier \in gate.pendingBuilds
  /\ AreDependentBuildsCompleted(gate.pendingBuilds, completed)

\* One call of a callback: the identifier it is passed and the completed
\* builds the manager holds while it runs
Invocation(callback, identifier, completed) ==
  [callback |-> callback, identifier |-> identifier, completed |-> completed]

\* A forEach that visits the callbacks from the last registered to the first
RECURSIVE NotifyAllLastFirst(_, _, _, _, _)
NotifyAllLastFirst(todo, identifier, completed, callbacks, gs) ==
  IF todo = <<>> THEN [callbacks |-> callbacks, gates |-> gs, invoked |-> <<>>]
  ELSE LET callback == Head(todo)
           rest == NotifyAllLastFirst(Tail(todo), identifier, completed, callbacks, gs)
       IN [rest EXCEPT
             !.invoked = @ \o <<Invocation(callback, identifier, completed)>>]

\* A forEach that loses its place when a callback deletes itself: the
\* callbacks after the first one that unregisters are not visited
RECURSIVE NotifyAllStopsAtDelete(_, _, _, _, _)
NotifyAllStopsAtDelete(todo, identifier, completed, callbacks, gs) ==
  IF todo = <<>> THEN [callbacks |-> callbacks, gates |-> gs, invoked |-> <<>>]
  ELSE LET callback == Head(todo) IN
    IF InSeq(callbacks, callback)
         /\ ListenerWakes(gs[callback.n], identifier, completed)
      THEN [callbacks |-> Unregister(callbacks, callback),
            gates |-> [gs EXCEPT ![callback.n].promise = "resolved"],
            invoked |-> <<Invocation(callback, identifier, completed)>>]
    ELSE NotifyAllStopsAtDelete(Tail(todo), identifier, completed, callbacks, gs)

\* A forEach whose waking callback resolves its promise and stays in the
\* collection
RECURSIVE NotifyAllKeepsListener(_, _, _, _, _)
NotifyAllKeepsListener(todo, identifier, completed, callbacks, gs) ==
  IF todo = <<>> THEN [callbacks |-> callbacks, gates |-> gs, invoked |-> <<>>]
  ELSE LET callback == Head(todo)
           wakes == /\ callback.kind = "gate"
                    /\ ListenerWakes(gs[callback.n], identifier, completed)
           rest == NotifyAllKeepsListener(
                     Tail(todo), identifier, completed, callbacks,
                     IF wakes THEN [gs EXCEPT ![callback.n].promise = "resolved"]
                     ELSE gs)
       IN [rest EXCEPT
             !.invoked = <<Invocation(callback, identifier, completed)>> \o @]

\* buildCompletionCallbacks.forEach(callback => callback(identifier)):
\* the callbacks are visited in insertion order; one deleted before its turn
\* is not visited.  A gate's callback may unregister itself and resolve its
\* promise; a plain listener only takes the call.  invoked lists the
\* calls made, in order.
RECURSIVE NotifyAll(_, _, _, _, _)
NotifyAll(todo, identifier, completed, callbacks, gs) ==
  IF todo = <<>> THEN [callbacks |-> callbacks, gates |-> gs, invoked |-> <<>>]
  ELSE LET callback == Head(todo) IN
    IF ~InSeq(callbacks, callback)
      THEN NotifyAll(Tail(todo), identifier, completed, callbacks, gs)
    ELSE LET wakes == /\ callback.kind = "gate"
                      /\ ListenerWakes(gs[callback.n], identifier, completed)
             rest == IF wakes
                       THEN NotifyAll(Tail(todo), identifier, completed,
                                      Unregister(callbacks, callback),
                                      [gs EXCEPT ![callback.n].promise = "resolved"])
                     ELSE NotifyAll(Tail(todo), identifier, completed, callbacks, gs)
         IN [rest EXCEPT
               !.invoked = <<Invocation(callback, identifier, completed)>> \o @]

\* What a completeBuild call leaves behind when nothing is added or called
Untouched(outcome) ==
  [result |-> outcome, completed |-> completedBuilds,
   callbacks |-> buildCompletionCallbacks, gates |-> gates, invoked |-> <<>>]

\* completeBuild without the check that the build is registered
CompleteBuildOutcomeUnchecked(identifier) ==
  IF IsBuildCompleted(completedBuilds, identifier)
    THEN Untouched("void")
  ELSE LET completed == completedBuilds \cup {identifier}
           r == NotifyAll(buildCompletionCallbacks, identifier, completed,
                          buildCompletionCallbacks, gates)
       IN [result |-> "void", completed |-> completed,
           callbacks |-> r.callbacks, gates |-> r.gates, invoked |-> r.invoked]

\* completeBuild without the early return for a completed build
CompleteBuildOutcomeRenotifies(identifier) ==
  IF ~IsBuildRegistered(registeredBuilds, identifier)
    THEN Untouched("throw")
  ELSE LET completed == completedBuilds \cup {identifier}
           r == NotifyAll(buildCompletionCallbacks, identifier, completed,
                          buildCompletionCallbacks, gates)
       IN [result |-> "void", completed |-> completed,
           callbacks |-> r.callbacks, gates |-> r.gates, invoked |-> r.invoked]

\* A completeBuild that runs the callbacks before it adds the build to the
\* completed builds
CompleteBuildOutcomeNotifiesFirst(identifier) ==
  IF ~IsBuildRegistered(registeredBuilds, identifier)
    THEN Untouched("throw")
  ELSE IF IsBuildCompleted(completedBuilds, identifier)
    THEN Untouched("void")
  ELSE LET r == NotifyAll(buildCompletionCallbacks, identifier, completedBuilds,
                          buildCompletionCallbacks, gates)
       IN [result |-> "void", completed |-> completedBuilds \cup {identifier},
           callbacks |-> r.callbacks, gates |-> r.gates, invoked |-> r.invoked]

\* completeBuild(identifier): throws for an unregistered build, returns at
\* once for a completed one, otherwise adds it and runs the callbacks.
CompleteBuildOutcome(identifier) ==
  IF ~IsBuildRegistered(registeredBuilds, identifier)
    THEN Untouched("throw")
  ELSE IF IsBuildCompleted(completedBuilds, identifier)
    THEN Untouched("void")
  ELSE LET completed == completedBuilds \cup {identifier}
           r == NotifyAll(buildCompletionCallbacks, identifier, completed,
                          buildCompletionCallbacks, gates)
       IN [result |-> "void", completed |-> completed,
           callbacks |-> r.callbacks, gates |-> r.gates, invoked |-> r.invoked]

\* A completeBuild that registers an unregistered build in place of throwing
CompleteBuildCallRegisters(identifier) ==
  LET completed == completedBuilds \cup {identifier}
      r == NotifyAll(buildCompletionCallbacks, identifier, completed,
                     buildCompletionCallbacks, gates)
      outcome == IF IsBuildCompleted(completedBuilds, identifier)
                   THEN Untouched("void")
                 ELSE [result |-> "void", completed |-> completed,
                       callbacks |-> r.callbacks, gates |-> r.gates,
                       invoked |-> r.invoked]
  IN /\ result' = outcome.result
     /\ completedBuilds' = outcome.completed
     /\ buildCompletionCallbacks' = outcome.callbacks
     /\ gates' = outcome.gates
     /\ registeredBuilds' = registeredBuilds \cup {identifier}

CompleteBuildCall(identifier) ==
  LET outcome == CompleteBuildOutcome(identifier)
  IN /\ result' = outcome.result
     /\ completedBuilds' = outcome.completed
     /\ buildCompletionCallbacks' = outcome.callbacks
     /\ gates' = outcome.gates
     /\ UNCHANGED registeredBuilds

\* A registerBuild that takes a build registered again out of the completed
\* builds
RegisterBuildCallReopens(identifier) ==
  /\ registeredBuilds' = RegisterAdd(registeredBuilds, identifier)
  /\ completedBuilds' = completedBuilds \ {identifier}
  /\ result' = IF RegisterResult(registeredBuilds, identifier) THEN "true" ELSE "false"
  /\ UNCHANGED <<buildCompletionCallbacks, gates>>

\* registerBuild(identifier)
RegisterBuildCall(identifier) ==
  /\ registeredBuilds' = RegisterAdd(registeredBuilds, identifier)
  /\ result' = IF RegisterResult(registeredBuilds, identifier) THEN "true" ELSE "false"
  /\ UNCHANGED <<completedBuilds, buildCompletionCallbacks, gates>>

\* A clear that leaves the completed builds in place
ClearCallKeepsCompleted ==
  /\ registeredBuilds' = {}
  /\ buildCompletionCallbacks' = <<>>
  /\ result' = "void"
  /\ UNCHANGED <<completedBuilds, gates>>

\* A clear that leaves the callbacks in place
ClearCallKeepsCallbacks ==
  /\ registeredBuilds' = {}
  /\ completedBuilds' = {}
  /\ result' = "void"
  /\ UNCHANGED <<buildCompletionCallbacks, gates>>

\* A clear that resolves the promises of the gates that wait
ClearCallWakesGates ==
  /\ registeredBuilds' = {}
  /\ completedBuilds' = {}
  /\ buildCompletionCallbacks' = <<>>
  /\ result' = "void"
  /\ gates' = [n \in 1..Len(gates) |->
                 IF gates[n].promise = "pending"
                   THEN [gates[n] EXCEPT !.promise = "resolved"]
                 ELSE gates[n]]

\* clear()
ClearCall ==
  /\ registeredBuilds' = {}
  /\ completedBuilds' = {}
  /\ buildCompletionCallbacks' = <<>>
  /\ result' = "void"
  /\ UNCHANGED gates

----------------------------------------------------------------------------
(* The hooks that setup() installs for one build unit *)

\* A start hook that subscribes its callback before it looks whether it has
\* to wait
OnStartCallAlwaysListens(packageIdentifier, format) ==
  LET buildFormat == BuildFormat(format)
      buildIdentifier == BuildIdentifier(packageIdentifier, buildFormat)
      registered == RegisterAdd(registeredBuilds, buildIdentifier)
      pendingBuilds == PendingBuilds(packageIdentifier, registered, completedBuilds)
      immediate == AreDependentBuildsCompleted(pendingBuilds, completedBuilds)
      gate == [packageIdentifier |-> packageIdentifier,
               buildIdentifier |-> buildIdentifier,
               pendingBuilds |-> pendingBuilds,
               promise |-> IF immediate THEN "none" ELSE "pending"]
  IN /\ registeredBuilds' = registered
     /\ gates' = Append(gates, gate)
     /\ buildCompletionCallbacks' =
          OnBuildCompleted(buildCompletionCallbacks, GateCallback(Len(gates) + 1))
     /\ result' = IF immediate THEN "undefined" ELSE "promise"
     /\ UNCHANGED completedBuilds

\* build.onStart callback
OnStartCall(packageIdentifier, format) ==
  LET buildFormat == BuildFormat(format)
      buildIdentifier == BuildIdentifier(packageIdentifier, buildFormat)
      registered == RegisterAdd(registeredBuilds, buildIdentifier)
      pendingBuilds == PendingBuilds(packageIdentifier, registered, completedBuilds)
      immediate == AreDependentBuildsCompleted(pendingBuilds, completedBuilds)
      gate == [packageIdentifier |-> packageIdentifier,
               buildIdentifier |-> buildIdentifier,
               pendingBuilds |-> pendingBuilds,
               promise |-> IF immediate THEN "none" ELSE "pending"]
  IN /\ registeredBuilds' = registered
     /\ gates' = Append(gates, gate)
     /\ buildCompletionCallbacks' =
          IF immediate THEN buildCompletionCallbacks
          ELSE OnBuildCompleted(buildCompletionCallbacks, GateCallback(Len(gates) + 1))
     /\ result' = IF immediate THEN "undefined" ELSE "promise"
     /\ UNCHANGED completedBuilds

\* An end hook that catches the error of completeBuild
OnEndCallSwallows(packageIdentifier, format) ==
  LET outcome == CompleteBuildOutcome(
                   BuildIdentifier(packageIdentifier, BuildFormat(format)))
  IN /\ result' = "void"
     /\ completedBuilds' = outcome.completed
     /\ buildCompletionCallbacks' = outcome.callbacks
     /\ gates' = outcome.gates
     /\ UNCHANGED registeredBuilds

\* build.onEnd callback
OnEndCall(packageIdentifier, format) ==
  CompleteBuildCall(BuildIdentifier(packageIdentifier, BuildFormat(format)))

----------------------------------------------------------------------------
(* Hooks and manager calls in every interleaving *)

Init ==
  /\ registeredBuilds = {}
  /\ completedBuilds = {}
  /\ buildCompletionCallbacks = <<>>
  /\ gates = <<>>
  /\ result = "void"
  /\ ended = {}
  /\ calls = <<>>
  /\ handles = {}
  /\ delivered = {}
  /\ snapshot = NoArray
  /\ probe = [packageIdentifier |-> <<>>, identifier |-> <<>>,
              tested |-> FALSE, matches |-> FALSE]

OnStart(packageIdentifier, format) ==
  /\ Len(gates) < MaxStarts
  /\ OnStartCall(packageIdentifier, format)
  /\ UNCHANGED <<ended, probe, calls, handles, delivered, snapshot>>

OnEnd(packageIdentifier, format) ==
  /\ OnEndCall(packageIdentifier, format)
  /\ UNCHANGED <<ended, probe, calls, handles, delivered, snapshot>>

RegisterBuild(identifier) ==
  /\ RegisterBuildCall(identifier)
  /\ UNCHANGED <<ended, probe, calls, handles, delivered, snapshot>>

CompleteBuild(identifier) ==
  /\ CompleteBuildCall(identifier)
  /\ UNCHANGED <<ended, probe, calls, handles, delivered, snapshot>>

Clear ==
  /\ ClearCall
  /\ UNCHANGED <<ended, probe, calls, handles, delivered, snapshot>>

Next ==
  \/ \E u \in Units : OnStart(u[1], u[2])
  \/ \E u \in Units : OnEnd(u[1], u[2])
  \/ \E identifier \in Identifiers : RegisterBuild(identifier)
  \/ \E identifier \in Identifiers : CompleteBuild(identifier)
  \/ Clear

Spec == Init /\ [][Next]_vars

----------------------------------------------------------------------------
(* The host driver's discipline: start hooks fire in configuration order,   *)
(* a unit is not started again before its build has ended, and its end hook *)
(* fires only after its start hook has let it proceed.                      *)

GatesOf(identifier) == {n \in 1..Len(gates) : gates[n].buildIdentifier = identifier}

Proceeded(gate) == gate.promise \in {"none", "resolved"}

HostStart(u) ==
  LET identifier == UnitIdentifier(u)
      session == Cardinality(GatesOf(identifier)) + 1
  IN /\ session <= MaxSessions
     /\ GatesOf(identifier) \subseteq ended
     /\ \A v \in Units :
          ConfigIndex(v[1]) < ConfigIndex(u[1])
            => Cardinality(GatesOf(UnitIdentifier(v))) >= session
     /\ OnStartCall(u[1], u[2])
     /\ UNCHANGED <<ended, probe, calls, handles, delivered, snapshot>>

HostEnd(u) ==
  \E n \in GatesOf(UnitIdentifier(u)) :
    /\ n \notin ended
    /\ Proceeded(gates[n])
    /\ OnEndCall(u[1], u[2])
    /\ ended' = ended \cup {n}
    /\ UNCHANGED <<probe, calls, handles, delivered, snapshot>>

HostNext ==
  \/ \E u \in Units : HostStart(u)
  \/ \E u \in Units : HostEnd(u)

HostSpec == Init /\ [][HostNext]_vars

\* The host driver always eventually calls the end hook of a unit that got
\* past its start hook
FairHostSpec == HostSpec /\ \A u \in Units : WF_vars(HostEnd(u))

----------------------------------------------------------------------------
(* The package regular expression on its own, over more names *)

Alphabet == {"p", "k", "-", ".", "+"}

RECURSIVE Words(_)
Words(n) ==
  IF n = 0 THEN {<<>>}
  ELSE LET shorter == Words(n - 1)
       IN shorter \cup {Append(w, c) : w \in shorter, c \in Alphabet}

\* The package identifiers probed are those new RegExp accepts (a + needs an
\* atom before it that has none yet) ...
ValidPattern(text) ==
  \A i \in 1..Len(text) :
    text[i] = "+" => (i > 1 /\ text[i - 1] # "+")

\* ... and that begin with a letter
ProbeNames ==
  {w \in Words(MaxNameLen) : w # <<>> /\ w[1] \in {"p", "k"} /\ ValidPattern(w)}

ProbeIdentifiers ==
  {BuildIdentifier(w, f) : w \in Words(MaxNameLen) \ {<<>>}, f \in {esm, unknown}}

\* The inputs are drawn first; Test applies packageRegex.test to them.
RegexInit ==
  /\ registeredBuilds = {}
  /\ completedBuilds = {}
  /\ buildCompletionCallbacks = <<>>
  /\ gates = <<>>
  /\ result = "void"
  /\ ended = {}
  /\ calls = <<>>
  /\ handles = {}
  /\ delivered = {}
  /\ snapshot = NoArray
  /\ probe \in {[packageIdentifier |-> w, identifier |-> identifier,
                  tested |-> FALSE, matches |-> FALSE] :
                   w \in ProbeNames, identifier \in ProbeIdentifiers}

Test ==
  /\ ~probe.tested
  /\ probe' = [probe EXCEPT !.tested = TRUE,
                            !.matches = RegexTest(probe.packageIdentifier, probe.identifier)]
  /\ UNCHANGED <<manager, gates, result, ended, calls, handles, delivered, snapshot>>

RegexNext == Test

RegexSpec == RegexInit /\ [][RegexNext]_vars

----------------------------------------------------------------------------
(* The BuildStateManager on its own: its public methods called in any      *)
(* order, with plain listeners that only take the call.                    *)

MaxListeners == 2   \* distinct listener functions passed to onBuildCompleted

Listeners == 1..MaxListeners

Listener(n) == [kind |-> "listener", n |-> n]

\* A function onBuildCompleted returned for listener n; the functions
\* returned for one listener differ only in whether they have been called
Handle(n, called) == [n |-> n, called |-> called]

\* The calls remembered over the whole run are those of one listener for
\* one identifier: the manager treats all listeners and identifiers alike
Watched == {<<Listener(1), BuildIdentifier(<<"p">>, esm)>>}

\* The calls completeBuild(identifier) makes to the callbacks, in order
Invocations(identifier) == CompleteBuildOutcome(identifier).invoked

ManagerRegisterBuild(identifier) ==
  /\ RegisterBuildCall(identifier)
  /\ calls' = <<>>
  /\ UNCHANGED <<ended, probe, handles, delivered, snapshot>>

ManagerCompleteBuild(identifier) ==
  /\ CompleteBuildCall(identifier)
  /\ calls' = Invocations(identifier)
  /\ delivered' = delivered \cup
       ({<<calls'[i].callback, calls'[i].identifier>> : i \in 1..Len(calls')} \cap Watched)
  /\ UNCHANGED <<ended, probe, handles, snapshot>>

\* An onBuildCompleted that calls the new listener for a build completed earlier
ManagerOnBuildCompletedReplays(n) ==
  /\ buildCompletionCallbacks' = OnBuildCompleted(buildCompletionCallbacks, Listener(n))
  /\ handles' = handles \cup {Handle(n, FALSE)}
  /\ result' = "function"
  /\ calls' \in IF completedBuilds = {} THEN {<<>>}
                ELSE {<<Invocation(Listener(n), x, completedBuilds)>> : x \in completedBuilds}
  /\ UNCHANGED <<registeredBuilds, completedBuilds, gates, ended, probe, delivered, snapshot>>

\* onBuildCompleted(callback) with listener n; the caller keeps the
\* function it returns
ManagerOnBuildCompleted(n) ==
  /\ buildCompletionCallbacks' = OnBuildCompleted(buildCompletionCallbacks, Listener(n))
  /\ handles' = handles \cup {Handle(n, FALSE)}
  /\ result' = "function"
  /\ calls' = <<>>
  /\ UNCHANGED <<registeredBuilds, completedBuilds, gates, ended, probe, delivered, snapshot>>

\* A call of the function that onBuildCompleted returned for listener n
ManagerUnregister(n) ==
  \E handle \in handles :
    /\ handle.n = n
    /\ buildCompletionCallbacks' = Unregister(buildCompletionCallbacks, Listener(n))
    /\ handles' = (handles \ {handle}) \cup {Handle(n, TRUE)}
    /\ result' = "void"
    /\ calls' = <<>>
    /\ UNCHANGED <<registeredBuilds, completedBuilds, gates, ended, probe, delivered, snapshot>>

ManagerClear ==
  /\ ClearCall
  /\ calls' = <<>>
  /\ UNCHANGED <<ended, probe, handles, delivered, snapshot>>

ManagerNext ==
  \/ \E identifier \in Identifiers : ManagerRegisterBuild(identifier)
  \/ \E identifier \in Identifiers : ManagerCompleteBuild(identifier)
  \/ \E n \in Listeners : ManagerOnBuildCompleted(n)
  \/ \E n \in Listeners : ManagerUnregister(n)
  \/ ManagerClear

ManagerSpec == Init /\ [][ManagerNext]_vars

----------------------------------------------------------------------------
(* One plugin among callers that register, complete and listen on the *)
(* singleton manager, without clear                                   *)

MaxFrameStarts == 1   \* start hooks fired next to the direct manager calls

FrameNext ==
  \/ \E u \in Units : Len(gates) < MaxFrameStarts /\ OnStart(u[1], u[2])
  \/ \E u \in Units : OnEnd(u[1], u[2])
  \/ \E identifier \in Identifiers : RegisterBuild(identifier)
  \/ \E identifier \in Identifiers : CompleteBuild(identifier)
  \/ \E n \in Listeners : ManagerOnBuildCompleted(n)
  \/ \E n \in Listeners : ManagerUnregister(n)

FrameSpec == Init /\ [][FrameNext]_vars

----------------------------------------------------------------------------
(* The accessors that return arrays, and a caller that writes to the array *)
(* it was handed.                                                          *)

MaxMutations == 1   \* writes the caller makes to one returned array

Sources == {"registered", "completed", "pending"}

\* 'modified-identifier' and the like: a string that names no build
Foreign == <<"x">>

Range(items) == {items[i] : i \in 1..Len(items)}

\* getRegisteredBuilds(), getCompletedBuilds() or getPendingBuilds()
Get(source) ==
  /\ snapshot' = Returned(source, registeredBuilds, completedBuilds)
  /\ result' = "array"
  /\ calls' = <<>>
  /\ UNCHANGED <<manager, gates, ended, probe, handles, delivered>>

\* The caller's write reaches the manager only through an array that shares
\* a collection
CallerWrites(items) ==
  /\ snapshot.mutations < MaxMutations
  /\ snapshot' = [snapshot EXCEPT !.items = items, !.mutations = @ + 1]
  /\ registeredBuilds' =
       IF snapshot.alias /\ snapshot.source = "registered" THEN Range(items)
       ELSE registeredBuilds
  /\ completedBuilds' =
       IF snapshot.alias /\ snapshot.source = "completed" THEN Range(items)
       ELSE completedBuilds
  /\ UNCHANGED <<buildCompletionCallbacks, gates, result, ended, probe, calls, handles,
                 delivered>>

\* (array as string[]).push(identifier)
Push(identifier) ==
  /\ snapshot.source # "none"
  /\ CallerWrites(Append(snapshot.items, identifier))

\* (array as string[]).pop()
Pop ==
  /\ snapshot.source # "none"
  /\ snapshot.items # <<>>
  /\ CallerWrites(SubSeq(snapshot.items, 1, Len(snapshot.items) - 1))

\* (array as string[])[0] = identifier
Overwrite(identifier) ==
  /\ snapshot.source # "none"
  /\ CallerWrites(IF snapshot.items = <<>> THEN <<identifier>>
                  ELSE [snapshot.items EXCEPT ![1] = identifier])

AccessorNext ==
  \/ \E identifier \in Identifiers : ManagerRegisterBuild(identifier)
  \/ \E identifier \in Identifiers : ManagerCompleteBuild(identifier)
  \/ \E source \in Sources : Get(source)
  \/ \E identifier \in Identifiers \cup {Foreign} : Push(identifier)
  \/ Pop
  \/ \E identifier \in Identifiers \cup {Foreign} : Overwrite(identifier)

AccessorSpec == Init /\ [][AccessorNext]_vars

----------------------------------------------------------------------------
(* Vocabulary of the properties *)

\* identifier is g, then the hyphen, then one or more characters other than a hyphen
InGroup(identifier, g) ==
  /\ Len(identifier) > Len(g) + 1
  /\ SubSeq(identifier, 1, Len(g)) = g
  /\ identifier[Len(g) + 1] = "-"
  /\ \A i \in (Len(g) + 2)..Len(identifier) : identifier[i] # "-"

\* The gate's promise is still pending
Waiting(gate) == gate.promise = "pending"

\* Gate n gets past its start hook in this step: the hook returns undefined,
\* or the promise it returned earlier is resolved
ProceedsNow(n) ==
  /\ n \in 1..Len(gates')
  /\ Proceeded(gates'[n])
  /\ n \in 1..Len(gates) => ~Proceeded(gates[n])

\* The identifiers of the units of the packages configured before a package
EarlierIdentifiers(packageIdentifier) ==
  {UnitIdentifier(v) : v \in {w \in Units : ConfigIndex(w[1]) < ConfigIndex(packageIdentifier)}}

----------------------------------------------------------------------------
(* C1: a start hook's pending promise is resolved only in a state where    *)
(* every identifier that was pending and outside the gate's group at its   *)
(* check is completed.  Under the host driver's discipline nothing leaves  *)
(* the completed builds, and the unit of every earlier onStart invocation  *)
(* was registered at the check: if it is not completed now, it was pending *)
(* then.                                                                   *)
C1_ResolvedOnlyAfterDependencies ==
  \A n \in 1..Len(gates) :
    gates[n].promise = "resolved"
      => \A m \in 1..(n - 1) :
           ~InGroup(gates[m].buildIdentifier, gates[n].packageIdentifier)
             => gates[m].buildIdentifier \in completedBuilds

(* C2: units of one group never block each other: a start hook that runs   *)
(* while every pending identifier belongs to its own group returns         *)
(* undefined, and no gate ever waits for an identifier of its own group.   *)
C2_SameGroupNeverBlocks ==
  [][ /\ \A u \in Units :
          OnStart(u[1], u[2])
            => ((\A identifier \in GetPendingBuilds(registeredBuilds', completedBuilds') :
                   InGroup(identifier, u[1]))
                  => result' = "undefined")
      /\ \A n \in 1..Len(gates') :
          \A identifier \in gates'[n].pendingBuilds :
            ~InGroup(identifier, gates'[n].packageIdentifier) ]_vars

(* C3: the start hook returns undefined iff no identifier outside the      *)
(* unit's group is pending at the check, and a promise otherwise; either   *)
(* way the unit's identifier is registered when the hook returns.          *)
C3_ImmediateIffNoOutsidePending ==
  [][ \A u \in Units :
        OnStart(u[1], u[2])
          => /\ result' = "undefined"
                  <=> \A identifier \in GetPendingBuilds(registeredBuilds', completedBuilds') :
                        InGroup(identifier, u[1])
             /\ result' \in {"undefined", "promise"}
             /\ UnitIdentifier(u) \in registeredBuilds' ]_vars

\* The callback of gate n is in the manager's callback collection
Listening(n) == InSeq(buildCompletionCallbacks, GateCallback(n))

\* All the builds gate n captured are completed
AllCompleted(n, completed) == gates[n].pendingBuilds \subseteq completed

(* C4 as stated: when a gate is waiting and a completeBuild call completes *)
(* the last build it captured, its promise is resolved in that call; while *)
(* not all of them are completed the promise stays pending.                *)
C4_LastDependencyResolves ==
  [][ \A n \in 1..Len(gates) :
        Waiting(gates[n])
          => /\ (AllCompleted(n, completedBuilds') /\ ~AllCompleted(n, completedBuilds))
                  => gates'[n].promise = "resolved"
             /\ ~AllCompleted(n, completedBuilds') => gates'[n].promise = "pending" ]_vars

(* C4 amended: the same for a waiting gate whose callback is still in the  *)
(* manager's callback collection (clear has not discarded it).             *)
C4_LastDependencyResolvesWhileListening ==
  [][ \A n \in 1..Len(gates) :
        Waiting(gates[n])
          => /\ (Listening(n) /\ AllCompleted(n, completedBuilds')
                                /\ ~AllCompleted(n, completedBuilds))
                  => gates'[n].promise = "resolved"
             /\ ~AllCompleted(n, completedBuilds') => gates'[n].promise = "pending" ]_vars

\* A gate that captured two builds or more has been resolved
C4_Witness ==
  \E n \in 1..Len(gates) :
    /\ gates[n].promise = "resolved"
    /\ Cardinality(gates[n].pendingBuilds) >= 2
    /\ AllCompleted(n, completedBuilds)

(* C5: the builds a gate waits for are captured once: the set never        *)
(* changes, a step that registers or completes only identifiers outside it *)
(* leaves the gate's promise as it is, and whether the promise is resolved *)
(* in a step is decided by the captured builds alone.                      *)
C5_WaitSetCapturedOnce ==
  [][ \A n \in 1..Len(gates) :
        /\ gates'[n].pendingBuilds = gates[n].pendingBuilds
        /\ ( /\ registeredBuilds \subseteq registeredBuilds'
             /\ (completedBuilds' \ completedBuilds) \cap gates[n].pendingBuilds = {} )
             => gates'[n].promise = gates[n].promise
        /\ gates'[n].promise = "resolved"
             <=> \/ gates[n].promise = "resolved"
                 \/ /\ Waiting(gates[n]) /\ Listening(n)
                    /\ AllCompleted(n, completedBuilds')
                    /\ ~AllCompleted(n, completedBuilds) ]_vars

\* A gate has been resolved while a build that it did not capture, and that
\* its regular expression does not take for one of its package, is pending
C5_Witness ==
  \E n \in 1..Len(gates) :
    /\ gates[n].promise = "resolved"
    /\ \E identifier \in GetPendingBuilds(registeredBuilds, completedBuilds) :
         /\ identifier \notin gates[n].pendingBuilds
         /\ ~RegexTest(gates[n].packageIdentifier, identifier)

(* C6: packages are built in configuration order whatever the order of the *)
(* start hooks: a gate gets past its start hook only when every unit of    *)
(* every package configured earlier is completed.                          *)
C6_ConfigurationOrderAnyStartOrder ==
  [][ \A n \in 1..Len(gates') :
        ProceedsNow(n)
          => EarlierIdentifiers(gates'[n].packageIdentifier) \subseteq completedBuilds' ]_vars

(* C7: when the start hooks fire in configuration order, a gate that has   *)
(* got past its start hook finds every unit of every earlier package       *)
(* completed.                                                              *)
C7_ConfigurationOrderWhenStartedInOrder ==
  \A n \in 1..Len(gates) :
    Proceeded(gates[n])
      => EarlierIdentifiers(gates[n].packageIdentifier) \subseteq completedBuilds

(* C8: across sessions: a gate of a later package gets past its start hook *)
(* only when every restarted unit of an earlier package that started       *)
(* before it has fired its end hook for that restart.  Stated for the      *)
(* units the gate's own regular expression tells apart from its package.   *)
C8_RestartedUnitsAreWaitedFor ==
  \A n \in 1..Len(gates) :
    Proceeded(gates[n])
      => \A m \in 1..(n - 1) :
           ( /\ ConfigIndex(gates[m].packageIdentifier) < ConfigIndex(gates[n].packageIdentifier)
             /\ \E k \in 1..(m - 1) : gates[k].buildIdentifier = gates[m].buildIdentifier
             /\ ~RegexTest(gates[n].packageIdentifier, gates[m].buildIdentifier) )
             => m \in ended

(* C9: group membership is exact: the package regex accepts an identifier  *)
(* iff it is the package identifier, a hyphen, and one or more characters  *)
(* other than a hyphen.                                                    *)
C9_MembershipExact ==
  probe.tested => (probe.matches <=> InGroup(probe.identifier, probe.packageIdentifier))

(* C10 as stated: when the end hook of a unit fires after its start hook,  *)
(* the unit's identifier is completed when the hook returns, and every     *)
(* gate whose captured builds have thereby all become completed is no      *)
(* longer waiting.                                                         *)
C10_EndHookCompletesAndWakes ==
  [][ \A u \in Units :
        (OnEnd(u[1], u[2]) /\ GatesOf(UnitIdentifier(u)) # {})
          => /\ UnitIdentifier(u) \in completedBuilds'
             /\ \A n \in 1..Len(gates) :
                  (AllCompleted(n, completedBuilds') /\ ~AllCompleted(n, completedBuilds))
                    => ~Waiting(gates'[n]) ]_vars

(* C10 amended: when the end hook of a unit fires while its identifier is  *)
(* registered, the hook returns normally with the identifier completed,    *)
(* and every gate whose callback was in the collection and whose captured  *)
(* builds are now all completed has been resolved and unregistered.        *)
C10_EndHookCompletesAndWakesListening ==
  [][ \A u \in Units :
        (OnEnd(u[1], u[2]) /\ IsBuildRegistered(registeredBuilds, UnitIdentifier(u)))
          => /\ UnitIdentifier(u) \in completedBuilds'
             /\ result' = "void"
             /\ \A n \in 1..Len(gates) :
                  (Listening(n) /\ AllCompleted(n, completedBuilds'))
                    => /\ gates'[n].promise = "resolved"
                       /\ ~InSeq(buildCompletionCallbacks', GateCallback(n)) ]_vars

\* Two gates that waited for the unit of an earlier start hook have both
\* been resolved by its completion
C10_Witness ==
  /\ result = "void"
  /\ \E m, n \in 1..Len(gates) :
       /\ m # n
       /\ gates[m].promise = "resolved" /\ gates[n].promise = "resolved"
       /\ gates[m].pendingBuilds = gates[n].pendingBuilds
       /\ gates[m].pendingBuilds \subseteq completedBuilds

\* The identifier the unit of a package and a format is to be known by
ExpectedIdentifier(packageIdentifier, format) ==
  packageIdentifier \o <<"-">> \o (IF format = Undefined \/ format = <<>> THEN unknown ELSE format)

(* C11: the build identifier of a unit is the package identifier, a hyphen *)
(* and the format, with an absent or empty format replaced by "unknown";   *)
(* the start hook registers this identifier and no other, and the end hook *)
(* completes this identifier (when it is registered) and no other.         *)
C11_IdentifierComposedAndUsed ==
  [][ \A u \in Units :
        LET expected == ExpectedIdentifier(u[1], u[2]) IN
        /\ OnStart(u[1], u[2])
             => /\ registeredBuilds' = registeredBuilds \cup {expected}
                /\ gates'[Len(gates')].buildIdentifier = expected
                /\ completedBuilds' = completedBuilds
        /\ OnEnd(u[1], u[2])
             => /\ completedBuilds' =
                     IF expected \in registeredBuilds
                       THEN completedBuilds \cup {expected} ELSE completedBuilds
                /\ registeredBuilds' = registeredBuilds ]_vars

\* The unit of package "p" with no format has been started and ended
C11_Witness ==
  /\ result = "void"
  /\ \E n \in 1..Len(gates) :
       /\ gates[n].buildIdentifier = <<"p", "-", "u", "n", "k", "n", "o", "w", "n">>
       /\ gates[n].buildIdentifier \in completedBuilds

(* C12: registerBuild(x) returns true iff x was not registered before the *)
(* call; x is registered afterwards either way; a repeated registerBuild(x) *)
(* returns false and leaves the registered builds, and their number, as     *)
(* they were.  Nothing else changes and no callback is called.              *)
C12_RegisterIdempotentReportsNovelty ==
  [][ \A x \in Identifiers :
        ManagerRegisterBuild(x)
          => /\ result' = (IF x \in registeredBuilds THEN "false" ELSE "true")
             /\ x \in registeredBuilds'
             /\ registeredBuilds' \ {x} = registeredBuilds \ {x}
             /\ Cardinality(registeredBuilds') =
                  Cardinality(registeredBuilds) + (IF x \in registeredBuilds THEN 0 ELSE 1)
             /\ UNCHANGED <<completedBuilds, buildCompletionCallbacks>>
             /\ calls' = <<>> ]_vars

\* A registerBuild call for a registered build has returned false
C12_Witness ==
  /\ result = "false"
  /\ registeredBuilds # {}

(* C13: completeBuild(x) for an x that is not registered throws; the failed *)
(* call leaves the registered builds, the completed builds and the          *)
(* callbacks unchanged and calls no callback.                               *)
C13_CompleteUnregisteredFails ==
  [][ \A x \in Identifiers :
        (ManagerCompleteBuild(x) /\ x \notin registeredBuilds)
          => /\ result' = "throw"
             /\ UNCHANGED manager
             /\ calls' = <<>> ]_vars

\* A completeBuild call has thrown while a listener was registered
C13_Witness ==
  /\ result = "throw"
  /\ buildCompletionCallbacks # <<>>

\* The number of calls in a sequence of calls made to one callback
TimesCalled(invocations, callback) ==
  Cardinality({i \in 1..Len(invocations) : invocations[i].callback = callback})

(* C14: completeBuild(x) for a completed x returns normally, changes no     *)
(* collection and calls no callback; the call that completes x calls each   *)
(* registered callback once, with x, so registerBuild(x); completeBuild(x); *)
(* completeBuild(x) calls each of them exactly once.                        *)
C14_CompletionIdempotent ==
  [][ \A x \in Identifiers :
        ManagerCompleteBuild(x)
          => /\ x \in completedBuilds
                  => /\ result' = "void"
                     /\ UNCHANGED manager
                     /\ calls' = <<>>
             /\ (x \in registeredBuilds /\ x \notin completedBuilds)
                  => /\ x \in completedBuilds'
                     /\ \A i \in 1..Len(buildCompletionCallbacks) :
                          TimesCalled(calls', buildCompletionCallbacks[i]) = 1
                     /\ \A i \in 1..Len(calls') : calls'[i].identifier = x ]_vars

\* A build is completed, a listener is registered, and the most recent
\* call returned normally without calling it
C14_Witness ==
  /\ result = "void"
  /\ calls = <<>>
  /\ completedBuilds # {}
  /\ buildCompletionCallbacks # <<>>

(* C15: in every state that registerBuild, completeBuild (failed calls     *)
(* included), onBuildCompleted, unregister and clear calls can reach, the   *)
(* completed builds are a subset of the registered builds.                  *)
C15_CompletedSubsetOfRegistered ==
  completedBuilds \subseteq registeredBuilds

\* A completeBuild call has failed while some build is completed and some
\* registered build is not
C15_Witness ==
  /\ result = "throw"
  /\ completedBuilds # {}
  /\ completedBuilds # registeredBuilds

(* C16: isBuildPending(x) is true iff x is registered and not completed,   *)
(* and getPendingBuilds() holds exactly the identifiers for which it is    *)
(* true; an identifier that was never registered is not pending.           *)
C16_PendingIsRegisteredNotCompleted ==
  /\ \A x \in Identifiers :
       IsBuildPending(registeredBuilds, completedBuilds, x)
         <=> (x \in registeredBuilds /\ x \notin completedBuilds)
  /\ GetPendingBuilds(registeredBuilds, completedBuilds)
       = {x \in Identifiers : IsBuildPending(registeredBuilds, completedBuilds, x)}

\* One build is pending, one is completed and one is not registered
C16_Witness ==
  /\ registeredBuilds \ completedBuilds # {}
  /\ completedBuilds # {}
  /\ Identifiers \ registeredBuilds # {}

(* C17: clear() empties the registered builds, the completed builds and    *)
(* the callbacks in one step, after which hasRegisteredBuilds(),           *)
(* hasCompletedBuilds() and hasPendingBuilds() are false.  A callback is   *)
(* called only while it is in the collection, and enters the collection    *)
(* only through onBuildCompleted: a listener registered before clear is    *)
(* not called after it unless it is registered again.                      *)
C17_ClearResetsEverything ==
  [][ /\ ManagerClear
          => /\ registeredBuilds' = {}
             /\ completedBuilds' = {}
             /\ buildCompletionCallbacks' = <<>>
             /\ ~HasRegisteredBuilds(registeredBuilds')
             /\ ~HasCompletedBuilds(completedBuilds')
             /\ ~HasPendingBuilds(registeredBuilds', completedBuilds')
             /\ calls' = <<>>
      /\ \A i \in 1..Len(calls') : InSeq(buildCompletionCallbacks, calls'[i].callback)
      /\ \A n \in Listeners :
           (InSeq(buildCompletionCallbacks', Listener(n))
              /\ ~InSeq(buildCompletionCallbacks, Listener(n)))
             => ManagerOnBuildCompleted(n) ]_vars

\* After a clear, a build has been completed without a call to the listener
\* that was registered before
C17_Witness ==
  /\ handles # {}
  /\ buildCompletionCallbacks = <<>>
  /\ completedBuilds # {}
  /\ result = "void"
  /\ calls = <<>>

(* C18: no replay of history: onBuildCompleted itself calls nothing, every *)
(* call is made for the build that the same step completes, to a callback  *)
(* registered before that step, and the step that completes a build calls  *)
(* every listener registered by then, whatever was completed before.        *)
C18_NoReplayOfHistory ==
  [][ /\ \A n \in Listeners : ManagerOnBuildCompleted(n) => calls' = <<>>
      /\ \A i \in 1..Len(calls') :
           /\ calls'[i].identifier \in completedBuilds' \ completedBuilds
           /\ InSeq(buildCompletionCallbacks, calls'[i].callback)
      /\ \A x \in Identifiers :
           (ManagerCompleteBuild(x) /\ x \in registeredBuilds /\ x \notin completedBuilds)
             => \A n \in Listeners :
                  InSeq(buildCompletionCallbacks, Listener(n))
                    => \E i \in 1..Len(calls') :
                         /\ calls'[i].callback = Listener(n)
                         /\ calls'[i].identifier = x ]_vars

\* onBuildCompleted has just returned while a build is completed, and has
\* called nothing
C18_Witness ==
  /\ result = "function"
  /\ completedBuilds # {}
  /\ calls = <<>>

(* C19: the function onBuildCompleted returns takes its listener, and no   *)
(* other, out of the collection; a listener outside the collection is not  *)
(* called and stays outside until onBuildCompleted is called with it again, *)
(* while the listeners in the collection are called for every completion.   *)
C19_UnregisterHandle ==
  [][ /\ \A n \in Listeners :
           ManagerUnregister(n)
             => /\ ~InSeq(buildCompletionCallbacks', Listener(n))
                /\ \A m \in Listeners \ {n} :
                     InSeq(buildCompletionCallbacks', Listener(m))
                       <=> InSeq(buildCompletionCallbacks, Listener(m))
                /\ calls' = <<>>
                /\ UNCHANGED <<registeredBuilds, completedBuilds>>
      /\ \A n \in Listeners :
           ~InSeq(buildCompletionCallbacks, Listener(n))
             => /\ TimesCalled(calls', Listener(n)) = 0
                /\ InSeq(buildCompletionCallbacks', Listener(n)) => ManagerOnBuildCompleted(n)
      /\ \A n \in Listeners :
           (InSeq(buildCompletionCallbacks, Listener(n))
              /\ completedBuilds' # completedBuilds /\ completedBuilds' # {})
             => TimesCalled(calls', Listener(n)) = 1 ]_vars

\* A completion has called one listener while another, unregistered, was
\* not called
C19_Witness ==
  /\ calls # <<>>
  /\ \E handle \in handles :
       /\ ~InSeq(buildCompletionCallbacks, Listener(handle.n))
       /\ TimesCalled(calls, Listener(handle.n)) = 0

(* C20: a completeBuild(x) call that newly completes x calls, before it    *)
(* returns, every callback registered at that moment, in the order of      *)
(* their registration, each with x.                                        *)
C20_AllListenersInRegistrationOrder ==
  [][ \A x \in Identifiers :
        (ManagerCompleteBuild(x) /\ x \in registeredBuilds /\ x \notin completedBuilds)
          => /\ Len(calls') = Len(buildCompletionCallbacks)
             /\ \A i \in 1..Len(calls') :
                  /\ calls'[i].callback = buildCompletionCallbacks[i]
                  /\ calls'[i].identifier = x
             /\ result' = "void" ]_vars

\* Two listeners have been called by one completion, the second listener
\* first because it was registered first
C20_Witness ==
  /\ Len(calls) = 2
  /\ calls[1].callback = Listener(2)
  /\ calls[2].callback = Listener(1)
  /\ calls[1].identifier = calls[2].identifier

(* C21 as stated: over every sequence of calls, a listener is not called   *)
(* for an identifier for which it has been called before.                  *)
C21_ListenerFiresOncePerIdentifier ==
  [][ \A i \in 1..Len(calls') :
        <<calls'[i].callback, calls'[i].identifier>> \notin delivered ]_vars

(* C21 amended: a listener is called at most once each time an identifier  *)
(* enters the completed builds: calls are made only in the step that adds  *)
(* the identifier, each listener is called at most once in that step, and  *)
(* an identifier leaves the completed builds, to enter again, only by      *)
(* clear.                                                                  *)
C21_ListenerFiresOncePerCompletion ==
  [][ /\ \A i \in 1..Len(calls') :
           calls'[i].identifier \in completedBuilds' \ completedBuilds
      /\ \A n \in Listeners : TimesCalled(calls', Listener(n)) <= 1
      /\ ~(completedBuilds \subseteq completedBuilds') => ManagerClear ]_vars

\* The watched listener has just been called for the watched identifier
C21_Witness ==
  /\ delivered # {}
  /\ \E i \in 1..Len(calls) : <<calls[i].callback, calls[i].identifier>> \in Watched

(* C22: getRegisteredBuilds(), getCompletedBuilds() and getPendingBuilds() *)
(* return snapshots: a call changes none of the three collections and      *)
(* returns the identifiers of its collection, each once; a caller that     *)
(* appends to, removes from or overwrites an element of a returned array   *)
(* leaves the registered and the completed builds, and what the accessors  *)
(* return afterwards, unchanged.                                           *)
C22_AccessorsReturnSnapshots ==
  [][ /\ \A source \in Sources :
           Get(source)
             => /\ UNCHANGED manager
                /\ Len(snapshot'.items) = Cardinality(Range(snapshot'.items))
                /\ Range(snapshot'.items) =
                     (IF source = "registered" THEN registeredBuilds
                      ELSE IF source = "completed" THEN completedBuilds
                      ELSE registeredBuilds \ completedBuilds)
      /\ snapshot'.mutations = snapshot.mutations + 1
           => /\ UNCHANGED manager
              /\ \A source \in Sources :
                   Returned(source, registeredBuilds', completedBuilds')
                     = Returned(source, registeredBuilds, completedBuilds) ]_vars

\* The caller has pushed a string that names no build onto the array that
\* getRegisteredBuilds returned
C22_Witness ==
  /\ snapshot.source = "registered"
  /\ snapshot.mutations = 1
  /\ Foreign \in Range(snapshot.items)
  /\ registeredBuilds # {}
  /\ Foreign \notin registeredBuilds

----------------------------------------------------------------------------
\* C23: a gate that waits is woken exactly once.  Its promise goes from
\* pending to resolved in one step only, the step in which its listener,
\* still subscribed, sees every captured identifier completed; in that same
\* step the listener leaves the collection.  A resolved promise stays
\* resolved and its listener is never in the collection again, so no later
\* completion reaches it; a gate that returned at once never gets a promise.
C23_GateWokenExactlyOnce ==
  [][\A n \in 1..Len(gates) :
       /\ gates[n].promise = "none" => gates'[n].promise = "none"
       /\ gates[n].promise = "resolved" =>
            /\ gates'[n].promise = "resolved"
            /\ ~InSeq(buildCompletionCallbacks, GateCallback(n))
            /\ ~InSeq(buildCompletionCallbacks', GateCallback(n))
       /\ (Waiting(gates[n]) /\ gates'[n].promise = "resolved") =>
            /\ Listening(n)
            /\ ~AllCompleted(n, completedBuilds)
            /\ AllCompleted(n, completedBuilds')
            /\ ~InSeq(buildCompletionCallbacks', GateCallback(n))]_vars

\* A gate was woken and a build that it did not wait for completed as well
C23_Witness ==
  \E n \in 1..Len(gates) :
    /\ gates[n].promise = "resolved"
    /\ gates[n].pendingBuilds # {}
    /\ completedBuilds \ gates[n].pendingBuilds # {}
    /\ buildCompletionCallbacks # <<>>

----------------------------------------------------------------------------
\* The gates the host driver can create: one per unit and session
GateNumbers == 1..(Cardinality(Units) * MaxSessions)

\* C24: no deadlock.  When clear is never called and the host driver
\* eventually fires the end hook of every unit that got past its start
\* hook, every gate that waits eventually settles and every started unit
\* eventually fires its end hook.
C24_EveryGateSettlesAndEnds ==
  \A n \in GateNumbers :
    (n \in 1..Len(gates))
      ~> (n \in 1..Len(gates) /\ Proceeded(gates[n]) /\ n \in ended)

----------------------------------------------------------------------------
\* C25: reacting only to the completions of captured identifiers loses no
\* wake-up: in no reachable state is a gate still waiting, with its listener
\* registered, while every identifier it captured is completed.
C25_NoMissedWake ==
  \A n \in 1..Len(gates) :
    ~(Waiting(gates[n]) /\ Listening(n) /\ AllCompleted(n, completedBuilds))

\* A gate waits and listens after one of the builds it captured completed
\* and a build it did not capture completed as well
C25_Witness ==
  \E n \in 1..Len(gates) :
    /\ Waiting(gates[n])
    /\ Listening(n)
    /\ gates[n].pendingBuilds \cap completedBuilds # {}
    /\ completedBuilds \ gates[n].pendingBuilds # {}

----------------------------------------------------------------------------
\* C26: an end hook fired for an identifier that is not registered (no start
\* hook before it, or clear was called since) throws the error of
\* completeBuild to the host driver, adds nothing to the completed builds
\* and wakes no gate.
C26_EndHookOfUnregisteredThrows ==
  [][\A u \in Units :
       ( /\ OnEnd(u[1], u[2])
         /\ ~IsBuildRegistered(registeredBuilds, ExpectedIdentifier(u[1], u[2])) )
         => /\ result' = "throw"
            /\ completedBuilds' = completedBuilds
            /\ registeredBuilds' = registeredBuilds
            /\ buildCompletionCallbacks' = buildCompletionCallbacks
            /\ gates' = gates]_vars

\* A unit was started and cleared away, a call threw, and a gate is waiting
C26_Witness ==
  /\ result = "throw"
  /\ \E n \in 1..Len(gates) :
       ~IsBuildRegistered(registeredBuilds, gates[n].buildIdentifier)
  /\ \E m \in 1..Len(gates) : Waiting(gates[m]) /\ Listening(m)

----------------------------------------------------------------------------
\* C27: completion is monotonic.  A step of registerBuild, completeBuild, a
\* start hook or an end hook never takes an identifier out of the registered
\* or of the completed builds; the only step that removes identifiers is
\* clear, and it removes all of them at once.
C27_MonotonicUntilClear ==
  [][( \/ ~(registeredBuilds \subseteq registeredBuilds')
       \/ ~(completedBuilds \subseteq completedBuilds') )
       => /\ registeredBuilds' = {}
          /\ completedBuilds' = {}
          /\ buildCompletionCallbacks' = <<>>]_vars

\* A completed build was registered or started again, and stays completed
C27_Witness ==
  /\ result \in {"false", "undefined", "promise"}
  /\ completedBuilds # {}
  /\ \E n \in 1..Len(gates) : gates[n].buildIdentifier \in completedBuilds
  /\ Cardinality(registeredBuilds) > Cardinality(completedBuilds)

----------------------------------------------------------------------------
\* C28: frame conditions.  registerBuild changes only the registered builds;
\* a completeBuild that returns changes only the completed builds, apart
\* from what its listeners do (a gate's listener unregisters itself and
\* resolves its promise); onBuildCompleted and the function it returns
\* change only the callbacks.  So a start hook never adds to the completed
\* builds and an end hook never adds to the registered builds.
C28_FrameConditions ==
  [][ \* registerBuild returned
      /\ result' \in {"true", "false"}
           => /\ registeredBuilds \subseteq registeredBuilds'
              /\ UNCHANGED <<completedBuilds, buildCompletionCallbacks, gates>>
      \* onBuildCompleted returned
      /\ result' = "function"
           => UNCHANGED <<registeredBuilds, completedBuilds, gates>>
      \* a function returned by onBuildCompleted was called
      /\ handles' # handles /\ result' = "void"
           => UNCHANGED <<registeredBuilds, completedBuilds, gates>>
      \* completeBuild or an end hook returned or threw
      /\ result' \in {"void", "throw"}
           => registeredBuilds' = registeredBuilds
      /\ completedBuilds' # completedBuilds
           => /\ result' = "void"
              /\ \E identifier \in registeredBuilds \ completedBuilds :
                   completedBuilds' = completedBuilds \cup {identifier}
              /\ \A n \in Listeners :
                   InSeq(buildCompletionCallbacks', Listener(n))
                     <=> InSeq(buildCompletionCallbacks, Listener(n))
              /\ Len(gates') = Len(gates)
              /\ \A n \in 1..Len(gates) :
                   /\ InSeq(buildCompletionCallbacks', GateCallback(n))
                        => Listening(n)
                   /\ gates'[n] # gates[n]
                        => gates'[n] = [gates[n] EXCEPT !.promise = "resolved"]
      \* a start hook returned
      /\ result' \in {"undefined", "promise"}
           => /\ completedBuilds' = completedBuilds
              /\ registeredBuilds \subseteq registeredBuilds' ]_vars

\* A gate was woken by a completion while a plain listener is registered
\* and a function returned by onBuildCompleted has been called
C28_Witness ==
  /\ \E n \in 1..Len(gates) : gates[n].promise = "resolved"
  /\ \E n \in Listeners : InSeq(buildCompletionCallbacks, Listener(n))
  /\ \E handle \in handles : handle.called
  /\ registeredBuilds # completedBuilds

----------------------------------------------------------------------------
\* C29: a function returned by onBuildCompleted is safe to call again: a
\* call of one that has been called before leaves the callbacks as they
\* are, also when onBuildCompleted was called with the same listener in
\* between.
C29_RepeatedUnregisterChangesNothing ==
  [][\A n \in Listeners :
       (ManagerUnregister(n) /\ Handle(n, TRUE) \in handles /\ handles' = handles)
         => buildCompletionCallbacks' = buildCompletionCallbacks]_vars

----------------------------------------------------------------------------
\* C30: completeBuild(x) adds x to the completed builds before it calls any
\* callback: every callback called for x finds x completed and not among
\* the pending builds while it runs.
C30_CompletedBeforeListenersRun ==
  \A i \in 1..Len(calls) :
    /\ IsBuildCompleted(calls[i].completed, calls[i].identifier)
    /\ calls[i].identifier
         \notin GetPendingBuilds(registeredBuilds, calls[i].completed)
    /\ ~IsBuildPending(registeredBuilds, calls[i].completed, calls[i].identifier)

\* A completion called two listeners while other builds were pending
C30_Witness ==
  /\ Len(calls) = MaxListeners
  /\ GetPendingBuilds(registeredBuilds, completedBuilds) # {}
  /\ Cardinality(completedBuilds) > 1

----------------------------------------------------------------------------
\* C31: a gate never waits on itself.  The identifier of the unit is
\* registered and pending when its start hook looks at the pending builds,
\* but it is never among the builds the gate captures, whatever the package
\* identifier and the format; so a unit started while no other build is
\* registered gets past its start hook at once.
C31_GateNeverWaitsOnItself ==
  [][Len(gates') = Len(gates) + 1
       => LET gate == gates'[Len(gates')]
          IN /\ gate.buildIdentifier \notin gate.pendingBuilds
             /\ registeredBuilds \subseteq {gate.buildIdentifier}
                  => gate.promise = "none" /\ result' = "undefined"]_vars

----------------------------------------------------------------------------
\* The callbacks are those of the gates that wait, one for each
OnlyWaitingGatesListen ==
  /\ \A i \in 1..Len(buildCompletionCallbacks) :
       LET callback == buildCompletionCallbacks[i]
       IN /\ callback.kind = "gate"
          /\ callback.n \in 1..Len(gates)
          /\ Waiting(gates[callback.n])
          /\ \A j \in 1..Len(buildCompletionCallbacks) :
               buildCompletionCallbacks[j] = callback => j = i
  /\ \A n \in 1..Len(gates) : Waiting(gates[n]) => Listening(n)

\* C32: no listener leak.  A start hook that returns at once registers no
\* callback, and until clear is called the callbacks are exactly those of
\* the gates that wait, one for each: it holds before the first hook and
\* every step other than clear keeps it, so no callback is left once every
\* gate has settled.
C32_NoListenerLeak ==
  /\ OnlyWaitingGatesListen
  /\ [][ /\ (Len(gates') = Len(gates) + 1 /\ result' = "undefined")
              => buildCompletionCallbacks' = buildCompletionCallbacks
         /\ (OnlyWaitingGatesListen /\ ~Clear) => OnlyWaitingGatesListen' ]_vars

\* One gate has been woken and its callback is gone while another gate
\* waits and listens
C32_Witness ==
  /\ OnlyWaitingGatesListen
  /\ Len(buildCompletionCallbacks) = 1
  /\ \E n \in 1..Len(gates) : gates[n].promise = "resolved"
  /\ \E n \in 1..Len(gates) : Waiting(gates[n])

----------------------------------------------------------------------------
\* C33: clear() called while a gate waits discards the gate's callback and
\* leaves its promise pending; a waiting gate without its callback stays so
\* whatever is registered and completed afterwards, the builds it captured
\* included: its promise is never resolved.
C33_ClearStrandsWaitingGates ==
  [][\A n \in 1..Len(gates) :
       /\ (Clear /\ Waiting(gates[n]))
            => Waiting(gates'[n]) /\ ~InSeq(buildCompletionCallbacks', GateCallback(n))
       /\ (Waiting(gates[n]) /\ ~Listening(n))
            => Waiting(gates'[n]) /\ ~InSeq(buildCompletionCallbacks', GateCallback(n))]_vars

\* A gate lost its callback to clear(), and every build it captured was
\* registered and completed afterwards
C33_Witness ==
  \E n \in 1..Len(gates) :
    /\ Waiting(gates[n])
    /\ ~Listening(n)
    /\ gates[n].pendingBuilds # {}
    /\ gates[n].pendingBuilds \subseteq completedBuilds

----------------------------------------------------------------------------
\* C34: hasPendingBuilds(), which compares the sizes of the registered and
\* the completed builds, agrees with the set of pending builds in every
\* reachable state: it is true iff getPendingBuilds() is not empty, that is
\* iff some registered build is not completed.
C34_HasPendingAgreesWithPendingSet ==
  /\ HasPendingBuilds(registeredBuilds, completedBuilds)
       <=> GetPendingBuilds(registeredBuilds, completedBuilds) # {}
  /\ HasPendingBuilds(registeredBuilds, completedBuilds)
       <=> \E identifier \in registeredBuilds :
             ~IsBuildCompleted(completedBuilds, identifier)

\* Two builds are completed and all registered builds are: nothing is pending
C34_Witness ==
  /\ Cardinality(completedBuilds) >= 2
  /\ ~HasPendingBuilds(registeredBuilds, completedBuilds)
  /\ calls # <<>>

----------------------------------------------------------------------------
\* C35: the callbacks are a set.  onBuildCompleted with a callback already
\* in the collection adds no second entry; a completion calls each callback
\* in the collection once; and a call of any function onBuildCompleted
\* returned for a callback leaves no entry of it.
C35_CallbacksAreASet ==
  [][ /\ \A i, j \in 1..Len(buildCompletionCallbacks') :
           buildCompletionCallbacks'[i] = buildCompletionCallbacks'[j] => i = j
      /\ \A n \in Listeners :
           (ManagerOnBuildCompleted(n) /\ InSeq(buildCompletionCallbacks, Listener(n)))
             => buildCompletionCallbacks' = buildCompletionCallbacks
      /\ \A n \in Listeners :
           (completedBuilds' # completedBuilds /\ completedBuilds' # {})
             => TimesCalled(calls', Listener(n))
                  = IF InSeq(buildCompletionCallbacks, Listener(n)) THEN 1 ELSE 0
      /\ \A n \in Listeners :
           ManagerUnregister(n)
             => \A i \in 1..Len(buildCompletionCallbacks') :
                  buildCompletionCallbacks'[i] # Listener(n) ]_vars

\* Both listeners are in the collection, one of them after it was taken out
\* and registered again, and a completion has called each of them once
C35_Witness ==
  /\ Len(buildCompletionCallbacks) = MaxListeners
  /\ \E handle \in handles :
       handle.called /\ InSeq(buildCompletionCallbacks, Listener(handle.n))
  /\ Len(calls) = MaxListeners
  /\ \A n \in Listeners : TimesCalled(calls, Listener(n)) = 1

====
